---- MODULE Spec2Model ----
(***************************************************************************)
(* Model of converter.py: the sitemap-driven PDF -> Markdown batch         *)
(* converter.  Six specifications share this module:                       *)
(*   SpecLock   the execution lock (acquire_lock / release_lock) stepped   *)
(*              system call by system call by several processes;           *)
(*   SpecRetry  the retry policy should_retry_failed_pdf as a function of  *)
(*              a Failed record and the clock;                             *)
(*   Spec       successive runs of main() against the persisted tracking   *)
(*              files and the external systems (sitemap, FTP, chatbot);    *)
(*   SpecCleanup handle_removed_pdfs from every state of the tracking      *)
(*              files and the external systems earlier runs can leave;     *)
(*   SpecAfter  the runs of Spec, started after a run that processed every *)
(*              url of its sitemap;                                        *)
(*   SpecLive   one instance whose process keeps executing (weak fairness  *)
(*              of the steps of main()), for termination.                  *)
(***************************************************************************)
EXTENDS Integers, FiniteSets, Sequences, TLC

\* ------------------------------------------------------------------------
\* Bounds of the model
\* ------------------------------------------------------------------------

\* number of processes competing for the lock in SpecLock
NumProcs == 2

Procs == 1..NumProcs

\* an open() of a missing path makes a new inode; an inode lives while the
\* path or an open descriptor refers to it, so NumProcs + 1 are enough
Inodes == 1..(NumProcs + 1)

NoProc == 0
NoInode == 0

\* runs of main() that Spec follows one after the other
MaxRuns == 2

\* sources the chatbot may hold for one URL
MaxKb == 2

\* failures of the environment Spec follows: external calls that fail, interrupts,
\* a competing instance
MaxFaults == 1

\* runs of main() that SpecLive follows from each of its initial states
LiveRuns == 1

\* SpecRetry: the clock runs from 0 to MaxClock days, a record counts up to MaxCount failures
MaxClock == 9

MaxCount == 4

\* ------------------------------------------------------------------------
\* Program constants
\* ------------------------------------------------------------------------

\* should_retry_failed_pdf(url, max_retries=3, retry_after_days=7)
MaxRetries == 3

RetryAfterDays == 7

\* sys.exit(1) when acquire_lock() returned False
LockedStatus == 1

\* sys.exit(1) on missing configuration, on a sitemap that cannot be downloaded, on
\* an exception that nothing handled
ErrorStatus == 1

\* sys.exit(0) on Ctrl+C, and the status of a main() that returns
OkStatus == 0

VARIABLES
    lk,           \* the lock file LOCK_FILE and each process's _lock_fd
    lpc,          \* SpecLock: where each process stands in acquire/release
    now,          \* datetime.now(), in days
    failed,       \* failed_pdfs.json: url -> [retry_count, failed_at]
    answer,       \* SpecRetry: the last result of should_retry_failed_pdf
    processed,    \* processed_pdfs.json: url -> [date, processed_at]
    removedLog,   \* removed_pdfs.json: url -> [removed_at, cleanup]
    sitemapFile,  \* LOCAL_SITEMAP_FILE: the sitemap saved by the last run
    kb,           \* chatbot sources: url -> number of sources with that url
    ftp,          \* markdown files on the FTP server, by the url they come from
    localmd,      \* markdown files in MARKDOWN_FOLDER
    scratch,      \* PDF files in DOWNLOAD_FOLDER
    pc,           \* where the run stands in main() / process_pdf()
    run,          \* the run's local variables
    hist,         \* what earlier steps did (read by the properties only)
    faults        \* failures of the environment so far

lockVars == <<lk, lpc>>

storeVars == <<failed, processed, removedLog, sitemapFile>>

worldVars == <<kb, ftp, localmd, scratch>>

vars == <<lk, lpc, now, failed, answer, processed, removedLog, sitemapFile,
          kb, ftp, localmd, scratch, pc, run, hist, faults>>

\* ------------------------------------------------------------------------
\* The execution lock: /tmp/converter.lock, fcntl.flock, _lock_fd
\* ------------------------------------------------------------------------
\* lk.path     inode LOCK_FILE names (NoInode: no such file)
\* lk.owner    per inode, the process whose descriptor holds the flock
\* lk.content  per inode, the pid written in the file (NoProc: empty)
\* lk.fd       per process, the inode of _lock_fd (NoInode: _lock_fd is None)
\* lk.isopen   per process, whether _lock_fd is an open file object

LockInit ==
    [path |-> NoInode,
     owner |-> [i \in Inodes |-> NoProc],
     content |-> [i \in Inodes |-> NoProc],
     fd |-> [p \in Procs |-> NoInode],
     isopen |-> [p \in Procs |-> FALSE]]

InodeInUse(s, i) == s.path = i \/ \E p \in Procs : s.isopen[p] /\ s.fd[p] = i

FreshInode(s) == CHOOSE i \in Inodes : ~InodeInUse(s, i) /\ \A j \in Inodes : j < i => InodeInUse(s, j)

\* _lock_fd = open(LOCK_FILE, 'w'): creates the file when missing, truncates it otherwise
LkOpen(s, p) ==
    LET i == IF s.path = NoInode THEN FreshInode(s) ELSE s.path
    IN [s EXCEPT !.path = i,
                 !.content = [@ EXCEPT ![i] = NoProc],
                 !.fd = [@ EXCEPT ![p] = i],
                 !.isopen = [@ EXCEPT ![p] = TRUE]]

\* fcntl.flock(fd, LOCK_EX | LOCK_NB) succeeds iff no other descriptor locks the inode
LkCanFlock(s, p) == s.owner[s.fd[p]] \in {NoProc, p}

LkFlock(s, p) == [s EXCEPT !.owner = [@ EXCEPT ![s.fd[p]] = p]]

\* _lock_fd.write(str(os.getpid())); _lock_fd.flush()
LkWritePid(s, p) == [s EXCEPT !.content = [@ EXCEPT ![s.fd[p]] = p]]

\* fcntl.flock(fd, LOCK_UN); on a closed _lock_fd fileno() raises and release_lock only warns
LkUnlock(s, p) ==
    IF s.isopen[p] /\ s.owner[s.fd[p]] = p
    THEN [s EXCEPT !.owner = [@ EXCEPT ![s.fd[p]] = NoProc]]
    ELSE s

\* _lock_fd.close(): the descriptor goes, and with it any flock it held
LkClose(s, p) ==
    LET u == LkUnlock(s, p)
    IN [u EXCEPT !.isopen = [@ EXCEPT ![p] = FALSE]]

\* if os.path.exists(LOCK_FILE): os.remove(LOCK_FILE)
LkRemove(s, p) == [s EXCEPT !.path = NoInode]

\* the process ends: the kernel closes its descriptors
LkExit(s, p) ==
    LET u == LkClose(s, p)
    IN [u EXCEPT !.fd = [@ EXCEPT ![p] = NoInode]]

\* acquire_lock() as a whole: TRUE iff the flock is obtained
AcquireSucceeds(s, p) == LkCanFlock(LkOpen(s, p), p)

AcquireLock(s, p) ==
    IF AcquireSucceeds(s, p)
    THEN LkWritePid(LkFlock(LkOpen(s, p), p), p)
    ELSE LkOpen(s, p)

\* release_lock() as a whole; `if _lock_fd:` is false only when acquire never ran
ReleaseLock(s, p) ==
    IF s.fd[p] = NoInode THEN s
    ELSE IF ~s.isopen[p] THEN s
    ELSE LkRemove(LkClose(LkUnlock(s, p), p), p)

HoldsFlock(s, p) == \E i \in Inodes : s.owner[i] = p

\* ------------------------------------------------------------------------
\* SpecLock: processes stepping through acquire_lock and release_lock
\* ------------------------------------------------------------------------

LockStates == {"idle", "opened", "locked", "held", "failed", "unlocked", "closed", "removed"}

\* line 86
StepOpen(p) ==
    /\ lpc[p] = "idle"
    /\ lk' = LkOpen(lk, p)
    /\ lpc' = [lpc EXCEPT ![p] = "opened"]

\* line 87, the flock is granted
StepFlockOk(p) ==
    /\ lpc[p] = "opened"
    /\ LkCanFlock(lk, p)
    /\ lk' = LkFlock(lk, p)
    /\ lpc' = [lpc EXCEPT ![p] = "locked"]

\* line 87 raises, lines 92-94: acquire_lock returns False
StepFlockFail(p) ==
    /\ lpc[p] = "opened"
    /\ ~LkCanFlock(lk, p)
    /\ lpc' = [lpc EXCEPT ![p] = "failed"]
    /\ UNCHANGED lk

\* lines 88-91: acquire_lock returns True, the run is active
StepWritePid(p) ==
    /\ lpc[p] = "locked"
    /\ lk' = LkWritePid(lk, p)
    /\ lpc' = [lpc EXCEPT ![p] = "held"]

\* line 102: the run is over, release_lock starts
StepUnlock(p) ==
    /\ lpc[p] = "held"
    /\ lk' = LkUnlock(lk, p)
    /\ lpc' = [lpc EXCEPT ![p] = "unlocked"]

\* line 103
StepClose(p) ==
    /\ lpc[p] = "unlocked"
    /\ lk' = LkClose(lk, p)
    /\ lpc' = [lpc EXCEPT ![p] = "closed"]

\* lines 104-105
StepRemove(p) ==
    /\ lpc[p] = "closed"
    /\ lk' = LkRemove(lk, p)
    /\ lpc' = [lpc EXCEPT ![p] = "removed"]

\* the process ends after release_lock, or after sys.exit(1) of a failed acquire
StepExit(p) ==
    /\ lpc[p] \in {"removed", "failed"}
    /\ lk' = LkExit(lk, p)
    /\ lpc' = [lpc EXCEPT ![p] = "idle"]

\* the process is killed (SIGKILL, power loss): no handler runs, the file stays
StepKill(p) ==
    /\ lpc[p] \in {"opened", "locked", "held", "unlocked", "closed"}
    /\ lk' = LkExit(lk, p)
    /\ lpc' = [lpc EXCEPT ![p] = "idle"]

\* ------------------------------------------------------------------------
\* Dictionaries (the JSON files, the parsed sitemaps)
\* ------------------------------------------------------------------------

EmptyMap == [x \in {} |-> TRUE]

Put(f, k, v) == [x \in (DOMAIN f) \cup {k} |-> IF x = k THEN v ELSE f[x]]

Del(f, k) == [x \in (DOMAIN f) \ {k} |-> f[x]]

\* the PDFs of the sitemap; the file name of "a" is part of the URL of "b"
\* (as report.pdf is part of annual-report.pdf), not the other way round
URLS == {"a", "b"}

\* <lastmod> values
DATES == {"d1", "d2"}

NoUrl == "none"

\* ------------------------------------------------------------------------
\* Tracking of failures: failed_pdfs.json
\* ------------------------------------------------------------------------

\* save_failed_pdf(url, error_msg) at time t
SaveFailed(f, u, t) ==
    LET retry_count == (IF u \in DOMAIN f THEN f[u].retry_count ELSE 0) + 1
    IN Put(f, u, [retry_count |-> retry_count, failed_at |-> t])

\* remove_from_failed(url)
RemoveFromFailed(f, u) == IF u \in DOMAIN f THEN Del(f, u) ELSE f

\* mutant: the cooldown is compared as a whole number of days with ==
ShouldRetryOnTheDay(f, u, t) ==
    IF u \notin DOMAIN f THEN TRUE
    ELSE IF f[u].retry_count >= MaxRetries THEN FALSE
    ELSE t - f[u].failed_at = RetryAfterDays + 1

\* should_retry_failed_pdf(url) at time t.  Every record save_failed_pdf writes
\* carries an ISO failed_at, so the KeyError/ValueError branch is not taken.
ShouldRetry(f, u, t) ==
    IF u \notin DOMAIN f THEN TRUE
    ELSE IF f[u].retry_count >= MaxRetries THEN FALSE
    ELSE IF t - f[u].failed_at > RetryAfterDays THEN TRUE
    ELSE FALSE

\* ------------------------------------------------------------------------
\* Tracking of successes: processed_pdfs.json
\* ------------------------------------------------------------------------

\* mutant: the record is written into a new dict, not into the loaded one
SaveProcessedAlone(f, u, d, t) == Put(EmptyMap, u, [date |-> d, processed_at |-> t])

\* save_processed_pdf(url, date) at time t
SaveProcessed(f, u, d, t) == Put(f, u, [date |-> d, processed_at |-> t])

\* remove_processed_pdf(url): the mapping without url
RemoveProcessed(f, u) == IF u \in DOMAIN f THEN Del(f, u) ELSE f

\* mutant: the date of the record is not compared
IsAlreadyProcessedAnyDate(f, u, d) == u \in DOMAIN f

\* is_pdf_already_processed(url, current_date)
IsAlreadyProcessed(f, u, d) == IF u \in DOMAIN f THEN f[u].date = d ELSE FALSE

\* save_removed_pdf(url, cleanup_result) at time t
SaveRemoved(f, u, c, t) == Put(f, u, [removed_at |-> t, cleanup |-> c])

\* ------------------------------------------------------------------------
\* Sitemaps
\* ------------------------------------------------------------------------

\* the <lastmod> values the sitemap gives a url: "a" is seen to change, "b" is not
DatesOf(u) == IF u = "a" THEN DATES ELSE {"d1"}

\* every dict url -> lastmod the sitemap can hold
Manifests == UNION {{m \in [D -> DATES] : \A u \in D : m[u] \in DatesOf(u)} : D \in SUBSET URLS}

\* what a sitemap file or a download holds: nothing, text that is no XML, or a sitemap
NoContent == [kind |-> "none", pdfs |-> EmptyMap]

BadXml == [kind |-> "bad", pdfs |-> EmptyMap]

Xml(m) == [kind |-> "xml", pdfs |-> m]

\* download_sitemap(): None (HTTP error, timeout, empty body) or the body
SitemapDownloads == {NoContent, BadXml} \cup {Xml(m) : m \in Manifests}

\* parse_sitemap(xml_content): {} on ET.ParseError
ParseSitemap(c) == IF c.kind = "xml" THEN c.pdfs ELSE EmptyMap

\* load_local_sitemap(): {} when the file is missing
LoadLocalSitemap(file) == IF file.kind = "none" THEN EmptyMap ELSE ParseSitemap(file)

\* mutant: a url of both sitemaps counts as changed whatever its dates
CompareSitemapsAnyDate(old, new) ==
    [added |-> {u \in DOMAIN new : u \notin DOMAIN old},
     changed |-> {u \in DOMAIN new : u \in DOMAIN old},
     removed |-> {u \in DOMAIN old : u \notin DOMAIN new}]

\* mutant: every url the new sitemap does not list counts as removed
CompareSitemapsAllGone(old, new) ==
    [added |-> {u \in DOMAIN new : u \notin DOMAIN old},
     changed |-> {u \in DOMAIN new : u \in DOMAIN old /\ old[u] # new[u]},
     removed |-> {u \in URLS : u \notin DOMAIN new}]

\* compare_sitemaps(old_pdfs, new_pdfs); the dates of added and changed are new_pdfs's
CompareSitemaps(old, new) ==
    [added |-> {u \in DOMAIN new : u \notin DOMAIN old},
     changed |-> {u \in DOMAIN new : u \in DOMAIN old /\ old[u] # new[u]},
     removed |-> {u \in DOMAIN old : u \notin DOMAIN new}]

\* mutant: the sitemap is saved only when the file does not exist yet
SaveSitemapOnce(file, content, w) == IF file.kind = "none" /\ w = "ok" THEN content ELSE file

\* save_sitemap(xml_content): w = "ok" the file is written; "noopen" open() raised,
\* the file is as it was; "cut" write() raised after open() truncated the file
SaveSitemap(file, content, w) ==
    CASE w = "ok" -> content
      [] w = "noopen" -> file
      [] OTHER -> BadXml

\* ------------------------------------------------------------------------
\* Chatbot sources
\* ------------------------------------------------------------------------

\* get_sources(): None, or the list of sources (here: how many per url)
NoSources == [ok |-> FALSE, list |-> [u \in URLS |-> 0]]

Sources(list) == [ok |-> TRUE, list |-> list]

\* `if sources:` -- None and the empty list are both false
Truthy(src) == IF src.ok THEN \E v \in URLS : src.list[v] > 0 ELSE FALSE

\* keyword in s.get("url", ""), keyword being get_clean_filename(u)
KeywordIn(u, v) == IF u = v THEN TRUE ELSE (u = "a" /\ v = "b")

\* find_source_by_keyword(sources, keyword): the urls of the sources that match;
\* the first match of the list is returned, and the API decides the order
FindSource(src, u) ==
    IF Truthy(src) THEN {v \in URLS : src.list[v] > 0 /\ KeywordIn(u, v)} ELSE {}

\* delete_source(source_id) answered 200/204 (the source goes) or 404 (it was gone)
DeleteSource(k, v) == IF k[v] > 0 THEN [k EXCEPT ![v] = @ - 1] ELSE k

\* create_source(url, markdown_content) answered 200/201
CreateSource(k, u) == [k EXCEPT ![u] = @ + 1]

\* ------------------------------------------------------------------------
\* Spec: runs of main()
\* ------------------------------------------------------------------------

\* the process of the run that is followed, and another instance of the script
Runner == 1

Other == 2

\* the locals of main() and process_pdf()
RunInit ==
    [content |-> NoContent,      \* new_sitemap_content
     newPdfs |-> EmptyMap,       \* new_pdfs
     removed |-> {},             \* removed urls still to clean up
     sources |-> NoSources,      \* handle_removed_pdfs: sources
     selected |-> {},            \* to_process as the filter built it
     toProcess |-> {},           \* urls of to_process still to come
     cur |-> NoUrl,              \* process_pdf: url
     pdfPath |-> FALSE,          \* process_pdf: pdf_path is set
     uploaded |-> FALSE,         \* what upload_to_ftp(md_filename) returned
     published |-> FALSE,        \* the source was created and verified in the chatbot
     atexit |-> FALSE,           \* atexit.register(release_lock) was done
     suspended |-> FALSE,        \* suspendInstance() was called
     exitCode |-> -1]            \* the status of sys.exit, -1 while running

HistInit ==
    [runs |-> 0,                 \* runs started
     outcome |-> EmptyMap,       \* this run: url -> what process_pdf returned
     intr |-> "no",              \* this run: pc at which the interrupt arrived
     wrote |-> "no",             \* this run: how save_sitemap ended
     cause |-> "none",           \* this run: why the process ends
     last |-> [ended |-> FALSE, fetched |-> NoContent, failedItems |-> {}]]

\* one failure of the environment (an external call that fails, an interrupt, a
\* competing instance) is counted for each FALSE
Cost(b) == IF b THEN 0 ELSE 1

CanFail(n) == faults + n <= MaxFaults

\* mutant: the loop of main() ends when process_pdf returns False
AfterItemStop(r) == IF r.pdfPath /\ r.published /\ r.toProcess \ {r.cur} # {} THEN "item" ELSE "commit"

\* the for loops of main() take the next url in dict order; any order is allowed here
AfterItem(r) == IF r.toProcess \ {r.cur} = {} THEN "commit" ELSE "item"

\* mutant: the url stays in to_process when process_pdf has returned
EndItemAgain(r) ==
    [r EXCEPT !.cur = NoUrl, !.pdfPath = FALSE, !.uploaded = FALSE, !.published = FALSE]

\* process_pdf has returned: its locals are gone
EndItem(r) ==
    [r EXCEPT !.toProcess = @ \ {r.cur}, !.cur = NoUrl, !.pdfPath = FALSE,
              !.uploaded = FALSE, !.published = FALSE]

\* finally of process_pdf: os.remove(pdf_path) when pdf_path is set; rm says whether it worked
RemoveScratch(sc, r, rm) == IF r.pdfPath /\ r.cur \in sc /\ rm THEN sc \ {r.cur} ELSE sc

\* mutant: release_lock is not registered with atexit
AtExitNothing(s, r) == s

\* the handlers atexit runs when the process ends
AtExit(s, r) == IF r.atexit THEN ReleaseLock(s, Runner) ELSE s

\* a new process starts main(); elapsed is the time since the previous run
StartRun ==
    /\ pc = "idle"
    /\ hist.runs < MaxRuns
    /\ \E elapsed \in (IF hist.runs = 0 THEN {0} ELSE {0, RetryAfterDays + 1}) :
          now' = now + elapsed
    /\ hist' = [hist EXCEPT !.runs = @ + 1]
    /\ pc' = "acquire"
    /\ UNCHANGED <<lk, lpc, answer, storeVars, worldVars, run, faults>>

\* main lines 892-898
Acquire ==
    /\ pc = "acquire"
    /\ lk' = AcquireLock(lk, Runner)
    /\ IF AcquireSucceeds(lk, Runner)
       THEN /\ run' = [run EXCEPT !.atexit = TRUE]
            /\ pc' = "config"
       ELSE /\ run' = [run EXCEPT !.exitCode = LockedStatus]
            /\ pc' = "exiting"
    /\ hist' = [hist EXCEPT !.cause = IF AcquireSucceeds(lk, Runner) THEN @ ELSE "locked"]
    /\ UNCHANGED <<lpc, now, answer, storeVars, worldVars, faults>>

\* main lines 900-907: the environment variables
CheckConfig(ok) ==
    /\ pc = "config"
    /\ CanFail(Cost(ok))
    /\ faults' = faults + Cost(ok)
    /\ IF ok
       THEN /\ pc' = "fetch"
            /\ UNCHANGED <<run, lk, hist>>
       ELSE /\ run' = [run EXCEPT !.suspended = TRUE, !.exitCode = ErrorStatus]
            /\ lk' = AtExit(lk, run)
            /\ hist' = [hist EXCEPT !.cause = "config"]
            /\ pc' = "exiting"
    /\ UNCHANGED <<lpc, now, answer, storeVars, worldVars>>

\* main lines 913-926 (and 931 when nothing was removed)
FetchSitemap(c) ==
    /\ pc = "fetch"
    /\ CanFail(Cost(c.kind = "xml"))
    /\ faults' = faults + Cost(c.kind = "xml")
    /\ IF c.kind = "none"
       THEN /\ run' = [run EXCEPT !.suspended = TRUE, !.exitCode = ErrorStatus]
            /\ lk' = AtExit(lk, run)
            /\ hist' = [hist EXCEPT !.cause = "fetch"]
            /\ pc' = "exiting"
       ELSE LET new == ParseSitemap(c)
                diff == CompareSitemaps(LoadLocalSitemap(sitemapFile), new)
            IN /\ run' = [run EXCEPT !.content = c, !.newPdfs = new, !.removed = diff.removed]
               /\ pc' = IF diff.removed = {} THEN "filter" ELSE "sources"
               /\ UNCHANGED <<lk, hist>>
    /\ UNCHANGED <<lpc, now, answer, storeVars, worldVars>>

\* handle_removed_pdfs lines 641-644
CleanupSources(ok) ==
    /\ pc = "sources"
    /\ CanFail(Cost(ok))
    /\ faults' = faults + Cost(ok)
    /\ run' = [run EXCEPT !.sources = IF ok THEN Sources(kb) ELSE NoSources]
    /\ pc' = "cleanup"
    /\ UNCHANGED <<lk, lpc, now, answer, storeVars, worldVars, hist>>

\* handle_removed_pdfs lines 655-701: cleanup_result.  del, rm and ftpOk say whether
\* delete_source, os.remove and delete_from_ftp worked
CleanupResult(src, md, u, del, rm, ftpOk) ==
    [chatbot_source |-> IF Truthy(src)
                        THEN (IF FindSource(src, u) = {} THEN TRUE ELSE del)
                        ELSE FALSE,
     local_file |-> IF u \in md THEN rm ELSE TRUE,
     ftp_file |-> ftpOk,
     tracking |-> TRUE]

\* handle_removed_pdfs lines 649-724, one turn of the loop; v is the source found
CleanupOne(u, v, del, rm, ftpOk) ==
    /\ pc = "cleanup"
    /\ u \in run.removed
    /\ IF FindSource(run.sources, u) = {} THEN v = u /\ del ELSE v \in FindSource(run.sources, u)
    /\ u \notin localmd => rm
    /\ CanFail(Cost(del) + Cost(rm) + Cost(ftpOk))
    /\ faults' = faults + Cost(del) + Cost(rm) + Cost(ftpOk)
    /\ kb' = IF FindSource(run.sources, u) # {} /\ del THEN DeleteSource(kb, v) ELSE kb
    /\ localmd' = IF rm THEN localmd \ {u} ELSE localmd
    /\ ftp' = IF ftpOk THEN ftp \ {u} ELSE ftp
    /\ removedLog' = SaveRemoved(removedLog, u, CleanupResult(run.sources, localmd, u, del, rm, ftpOk), now)
    /\ processed' = RemoveProcessed(processed, u)
    /\ failed' = RemoveFromFailed(failed, u)
    /\ run' = [run EXCEPT !.removed = @ \ {u},
                          !.sources = IF run.removed \ {u} = {} THEN NoSources ELSE @]
    /\ pc' = IF run.removed \ {u} = {} THEN "filter" ELSE "cleanup"
    /\ UNCHANGED <<lk, lpc, now, answer, sitemapFile, scratch, hist>>

\* lines 1016-1021: an exception nothing handled reaches __main__: release_lock(),
\* suspendInstance(), sys.exit(1), then the atexit handlers
OnUnhandledException(s, r) == AtExit(ReleaseLock(s, Runner), r)

\* handle_removed_pdfs lines 649-697, one turn of the loop in which processed_pdfs.json
\* cannot be opened for writing: save_processed_pdfs (418-421) raises out of
\* remove_processed_pdf, of handle_removed_pdfs and of main()
CleanupRaises(u, v, del, rm, ftpOk) ==
    /\ pc = "cleanup"
    /\ u \in run.removed
    /\ u \in DOMAIN processed
    /\ IF FindSource(run.sources, u) = {} THEN v = u /\ del ELSE v \in FindSource(run.sources, u)
    /\ u \notin localmd => rm
    /\ CanFail(1 + Cost(del) + Cost(rm) + Cost(ftpOk))
    /\ faults' = faults + 1 + Cost(del) + Cost(rm) + Cost(ftpOk)
    /\ kb' = IF FindSource(run.sources, u) # {} /\ del THEN DeleteSource(kb, v) ELSE kb
    /\ localmd' = IF rm THEN localmd \ {u} ELSE localmd
    /\ ftp' = IF ftpOk THEN ftp \ {u} ELSE ftp
    /\ lk' = OnUnhandledException(lk, run)
    /\ run' = [run EXCEPT !.suspended = TRUE, !.exitCode = ErrorStatus]
    /\ hist' = [hist EXCEPT !.cause = "crash"]
    /\ pc' = "exiting"
    /\ UNCHANGED <<lpc, now, answer, storeVars, scratch>>

\* main lines 937-950: the filter of added and changed
ToProcess(new, old, proc, fail, t) ==
    LET diff == CompareSitemaps(old, new)
    IN {u \in diff.added \cup diff.changed :
           ~IsAlreadyProcessed(proc, u, new[u]) /\ ShouldRetry(fail, u, t)}

\* main lines 937-958
Filter ==
    /\ pc = "filter"
    /\ LET sel == ToProcess(run.newPdfs, LoadLocalSitemap(sitemapFile), processed, failed, now)
       IN /\ run' = [run EXCEPT !.selected = sel, !.toProcess = sel]
          /\ pc' = IF sel = {} THEN "commit" ELSE "item"
    /\ UNCHANGED <<lk, lpc, now, answer, storeVars, worldVars, hist, faults>>

\* main line 963 and process_pdf lines 838-844: the next url of to_process
PickItem(u) ==
    /\ pc = "item"
    /\ u \in run.toProcess
    /\ run' = [run EXCEPT !.cur = u]
    /\ pc' = "download"
    /\ UNCHANGED <<lk, lpc, now, answer, storeVars, worldVars, hist, faults>>

\* what check_memory_usage and download_pdf can do:
\*   "memory"  check_memory_usage is False           -> raise, no file
\*   "http"    status is not 200, or timeout         -> raise, no file
\*   "broken"  the connection breaks while writing   -> raise, a partial file is left
\*   "small"   the file is under 100 bytes           -> raise, the file is left
\*   "ok"      download_pdf returns filepath
DownloadOutcomes == {"memory", "http", "broken", "small", "ok"}

DownloadLeavesFile(o) == o \in {"broken", "small", "ok"}

\* process_pdf lines 848-852
Download(o) ==
    /\ pc = "download"
    /\ CanFail(Cost(o = "ok"))
    /\ faults' = faults + Cost(o = "ok")
    /\ scratch' = IF DownloadLeavesFile(o) THEN scratch \cup {run.cur} ELSE scratch
    /\ run' = [run EXCEPT !.pdfPath = (o = "ok")]
    /\ pc' = IF o = "ok" THEN "convert" ELSE "savefail"
    /\ UNCHANGED <<lk, lpc, now, answer, storeVars, kb, ftp, localmd, hist>>

\* convert_pdf_to_markdown lines 804-820: ok iff the converter gave 50 characters or more
Convert(ok) ==
    /\ pc = "convert"
    /\ CanFail(Cost(ok))
    /\ faults' = faults + Cost(ok)
    /\ localmd' = IF ok THEN localmd \cup {run.cur} ELSE localmd
    /\ pc' = IF ok THEN "upload" ELSE "savefail"
    /\ UNCHANGED <<lk, lpc, now, answer, storeVars, kb, ftp, scratch, run, hist>>

\* convert_pdf_to_markdown lines 822-824: a failed upload is logged, "mais on continue"
AfterUpload(ok) == "chatbot"

Upload(ok) ==
    /\ pc = "upload"
    /\ CanFail(Cost(ok))
    /\ faults' = faults + Cost(ok)
    /\ ftp' = IF ok THEN ftp \cup {run.cur} ELSE ftp
    /\ run' = [run EXCEPT !.uploaded = ok]
    /\ pc' = AfterUpload(ok)
    /\ UNCHANGED <<lk, lpc, now, answer, storeVars, kb, localmd, scratch, hist>>

\* mutant: the result of verify_source_added is not looked at
ChatbotSucceedsUnverified(src, create, verify) == src /\ create

\* process_chatbot_source lines 374-399 returns without raising iff the sources were
\* listed, the source was created and verify_source_added found it
ChatbotSucceeds(src, create, verify) == src /\ create /\ verify

\* process_chatbot_source: src, del, create, verify say whether get_sources,
\* delete_source, create_source and verify_source_added worked; v is the source found.
\* A call that is not reached is given as TRUE.
Chatbot(v, src, del, create, verify) ==
    /\ pc = "chatbot"
    /\ ~src => del /\ create
    /\ ~(src /\ create) => verify
    /\ CanFail(Cost(src) + Cost(del) + Cost(create) + Cost(verify))
    /\ faults' = faults + Cost(src) + Cost(del) + Cost(create) + Cost(verify)
    /\ LET found == IF src THEN FindSource(Sources(kb), run.cur) ELSE {}
           kb1 == IF found # {} /\ del THEN DeleteSource(kb, v) ELSE kb
       IN /\ IF found = {} THEN v = run.cur /\ del ELSE v \in found
          /\ src /\ create => kb1[run.cur] < MaxKb
          /\ kb' = IF src /\ create THEN CreateSource(kb1, run.cur) ELSE kb1
    /\ run' = [run EXCEPT !.published = (src /\ create /\ verify)]
    /\ pc' = IF ChatbotSucceeds(src, create, verify) THEN "saveproc" ELSE "savefail"
    /\ UNCHANGED <<lk, lpc, now, answer, storeVars, ftp, localmd, scratch, hist>>

\* process_pdf line 858
MarkProcessed ==
    /\ pc = "saveproc"
    /\ processed' = SaveProcessed(processed, run.cur, run.newPdfs[run.cur], now)
    /\ pc' = "unfail"
    /\ UNCHANGED <<lk, lpc, now, answer, failed, removedLog, sitemapFile, worldVars, run, hist, faults>>

\* process_pdf lines 861-864 and the finally: return True
Unfail(rm) ==
    /\ pc = "unfail"
    /\ CanFail(Cost(rm))
    /\ faults' = faults + Cost(rm)
    /\ failed' = RemoveFromFailed(failed, run.cur)
    /\ scratch' = RemoveScratch(scratch, run, rm)
    /\ hist' = [hist EXCEPT !.outcome = Put(@, run.cur, "Done")]
    /\ run' = EndItem(run)
    /\ pc' = AfterItem(run)
    /\ UNCHANGED <<lk, lpc, now, answer, processed, removedLog, sitemapFile, kb, ftp, localmd>>

\* process_pdf lines 866-870 and the finally: return False
MarkFailed(rm) ==
    /\ pc = "savefail"
    /\ ~run.pdfPath => rm
    /\ CanFail(Cost(rm))
    /\ faults' = faults + Cost(rm)
    /\ failed' = SaveFailed(failed, run.cur, now)
    /\ scratch' = RemoveScratch(scratch, run, rm)
    /\ hist' = [hist EXCEPT !.outcome = Put(@, run.cur, "Failed")]
    /\ run' = EndItem(run)
    /\ pc' = AfterItem(run)
    /\ UNCHANGED <<lk, lpc, now, answer, processed, removedLog, sitemapFile, kb, ftp, localmd>>

\* main line 985
Commit(w) ==
    /\ pc = "commit"
    /\ CanFail(Cost(w = "ok"))
    /\ faults' = faults + Cost(w = "ok")
    /\ sitemapFile' = SaveSitemap(sitemapFile, run.content, w)
    /\ hist' = [hist EXCEPT !.wrote = w]
    /\ pc' = "final"
    /\ UNCHANGED <<lk, lpc, now, answer, failed, processed, removedLog, worldVars, run>>

\* main lines 997-1006, then the interpreter ends and runs the atexit handlers
Final ==
    /\ pc = "final"
    /\ run' = [run EXCEPT !.suspended = TRUE, !.exitCode = OkStatus]
    /\ lk' = AtExit(lk, run)
    /\ hist' = [hist EXCEPT !.cause = "end"]
    /\ pc' = "exiting"
    /\ UNCHANGED <<lpc, now, answer, storeVars, worldVars, faults>>

\* where main() stands while it holds the lock
InMain == {"config", "fetch", "sources", "cleanup", "filter", "item", "download", "convert",
           "upload", "chatbot", "saveproc", "unfail", "savefail", "commit", "final"}

\* where process_pdf stands between its try and its finally
InProcessPdf == {"download", "convert", "upload", "chatbot", "saveproc", "unfail", "savefail"}

\* mutant: the handler ends the process at once (os._exit), nothing is released
OnKeyboardInterruptNoRelease(s, r) == s

\* lines 1012-1015: release_lock() and sys.exit(0), then the atexit handlers
OnKeyboardInterrupt(s, r) == AtExit(ReleaseLock(s, Runner), r)

\* Ctrl+C while main() runs: KeyboardInterrupt is no Exception, so it passes the
\* except of process_pdf, runs its finally, and reaches lines 1012-1015
Interrupt(rm) ==
    /\ pc \in InMain
    /\ ~(pc \in InProcessPdf /\ run.pdfPath) => rm
    /\ CanFail(1 + Cost(rm))
    /\ faults' = faults + 1 + Cost(rm)
    /\ scratch' = IF pc \in InProcessPdf THEN RemoveScratch(scratch, run, rm) ELSE scratch
    /\ lk' = OnKeyboardInterrupt(lk, run)
    /\ run' = [run EXCEPT !.exitCode = OkStatus]
    /\ hist' = [hist EXCEPT !.intr = pc, !.cause = "interrupt"]
    /\ pc' = "exiting"
    /\ UNCHANGED <<lpc, now, answer, storeVars, kb, ftp, localmd>>

\* the process is gone
ProcessExit ==
    /\ pc = "exiting"
    /\ lk' = LkExit(lk, Runner)
    /\ hist' = [hist EXCEPT
                  !.last = [ended |-> (hist.cause = "end"),
                            fetched |-> run.content,
                            failedItems |-> {u \in DOMAIN hist.outcome : hist.outcome[u] = "Failed"}],
                  !.outcome = EmptyMap, !.intr = "no", !.wrote = "no", !.cause = "none"]
    /\ run' = RunInit
    /\ pc' = "idle"
    /\ UNCHANGED <<lpc, now, answer, storeVars, worldVars, faults>>

\* another instance of the script is started (cron, a second terminal) ...
OtherStarts ==
    /\ lk.fd[Other] = NoInode
    /\ CanFail(1)
    /\ faults' = faults + 1
    /\ lk' = IF AcquireSucceeds(lk, Other)
             THEN AcquireLock(lk, Other)
             ELSE LkExit(AcquireLock(lk, Other), Other)
    /\ UNCHANGED <<lpc, now, answer, storeVars, worldVars, pc, run, hist>>

\* ... and ends
OtherEnds ==
    /\ lk.fd[Other] # NoInode
    /\ lk' = LkExit(ReleaseLock(lk, Other), Other)
    /\ UNCHANGED <<lpc, now, answer, storeVars, worldVars, pc, run, hist, faults>>

Init ==
    /\ lk = LockInit
    /\ lpc = [p \in Procs |-> "idle"]
    /\ now = 0
    /\ failed = EmptyMap
    /\ answer = [asked |-> FALSE, retry |-> FALSE, known |-> FALSE, retry_count |-> 0, elapsed |-> 0]
    /\ processed = EmptyMap
    /\ removedLog = EmptyMap
    /\ sitemapFile = NoContent
    /\ kb = [u \in URLS |-> 0]
    /\ ftp = {}
    /\ localmd = {}
    /\ scratch = {}
    /\ pc = "idle"
    /\ run = RunInit
    /\ hist = HistInit
    /\ faults = 0

Next ==
    \/ StartRun
    \/ Acquire
    \/ \E ok \in BOOLEAN : CheckConfig(ok)
    \/ \E c \in SitemapDownloads : FetchSitemap(c)
    \/ \E ok \in BOOLEAN : CleanupSources(ok)
    \/ \E u \in URLS, v \in URLS, del \in BOOLEAN, rm \in BOOLEAN, ftpOk \in BOOLEAN :
          CleanupOne(u, v, del, rm, ftpOk)
    \/ \E u \in URLS, v \in URLS, del \in BOOLEAN, rm \in BOOLEAN, ftpOk \in BOOLEAN :
          CleanupRaises(u, v, del, rm, ftpOk)
    \/ Filter
    \/ \E u \in URLS : PickItem(u)
    \/ \E o \in DownloadOutcomes : Download(o)
    \/ \E ok \in BOOLEAN : Convert(ok)
    \/ \E ok \in BOOLEAN : Upload(ok)
    \/ \E v \in URLS, src \in BOOLEAN, del \in BOOLEAN, create \in BOOLEAN, verify \in BOOLEAN :
          Chatbot(v, src, del, create, verify)
    \/ MarkProcessed
    \/ \E rm \in BOOLEAN : Unfail(rm)
    \/ \E rm \in BOOLEAN : MarkFailed(rm)
    \/ \E w \in {"ok", "noopen", "cut"} : Commit(w)
    \/ Final
    \/ \E rm \in BOOLEAN : Interrupt(rm)
    \/ ProcessExit
    \/ OtherStarts
    \/ OtherEnds

Spec == Init /\ [][Next]_vars

\* ------------------------------------------------------------------------
\* SpecAfter: runs of main() that follow a run which processed every url
\* ------------------------------------------------------------------------
\* The state a first run of Spec leaves when its sitemap lists both urls and every
\* call succeeds: the sitemap is saved, each url has its Processed record, its
\* markdown file, its FTP file and one chatbot source.

InitAfter ==
    /\ lk = LkExit(ReleaseLock(AcquireLock(LockInit, Runner), Runner), Runner)
    /\ lpc = [p \in Procs |-> "idle"]
    /\ now = 0
    /\ failed = EmptyMap
    /\ answer = [asked |-> FALSE, retry |-> FALSE, known |-> FALSE, retry_count |-> 0, elapsed |-> 0]
    /\ removedLog = EmptyMap
    /\ \E m \in Manifests :
          /\ DOMAIN m = URLS
          /\ sitemapFile = Xml(m)
          /\ processed = [u \in URLS |-> [date |-> m[u], processed_at |-> 0]]
          /\ hist = [HistInit EXCEPT !.last = [ended |-> TRUE, fetched |-> Xml(m), failedItems |-> {}]]
    /\ kb = [u \in URLS |-> 1]
    /\ ftp = URLS
    /\ localmd = URLS
    /\ scratch = {}
    /\ pc = "idle"
    /\ run = RunInit
    /\ faults = 0

SpecAfter == InitAfter /\ [][Next]_vars

\* ------------------------------------------------------------------------
\* SpecLive: the runs of one instance, where the process of the run keeps going
\* ------------------------------------------------------------------------
\* main() is one thread: while the process lives, the statement it stands at is
\* executed, and every external call it makes returns or times out (requests and
\* FTP have timeouts, subprocess.run has timeout=60).  The interrupt is not owed
\* anything.

MainStep ==
    \/ Acquire
    \/ \E ok \in BOOLEAN : CheckConfig(ok)
    \/ \E c \in SitemapDownloads : FetchSitemap(c)
    \/ \E ok \in BOOLEAN : CleanupSources(ok)
    \/ \E u \in URLS, v \in URLS, del \in BOOLEAN, rm \in BOOLEAN, ftpOk \in BOOLEAN :
          CleanupOne(u, v, del, rm, ftpOk)
    \/ \E u \in URLS, v \in URLS, del \in BOOLEAN, rm \in BOOLEAN, ftpOk \in BOOLEAN :
          CleanupRaises(u, v, del, rm, ftpOk)
    \/ Filter
    \/ \E u \in URLS : PickItem(u)
    \/ \E o \in DownloadOutcomes : Download(o)
    \/ \E ok \in BOOLEAN : Convert(ok)
    \/ \E ok \in BOOLEAN : Upload(ok)
    \/ \E v \in URLS, src \in BOOLEAN, del \in BOOLEAN, create \in BOOLEAN, verify \in BOOLEAN :
          Chatbot(v, src, del, create, verify)
    \/ MarkProcessed
    \/ \E rm \in BOOLEAN : Unfail(rm)
    \/ \E rm \in BOOLEAN : MarkFailed(rm)
    \/ \E w \in {"ok", "noopen", "cut"} : Commit(w)
    \/ Final
    \/ ProcessExit

StartLive == hist.runs < LiveRuns /\ StartRun

NextLive ==
    \/ StartLive
    \/ MainStep
    \/ \E rm \in BOOLEAN : Interrupt(rm)

\* a run on a fresh disk, or a run after one that processed every url
InitLive == Init \/ InitAfter

SpecLive == InitLive /\ [][NextLive]_vars /\ WF_vars(MainStep)

\* ------------------------------------------------------------------------
\* SpecLock: the lock alone, NumProcs processes
\* ------------------------------------------------------------------------

NextLock ==
    /\ \E p \in Procs :
          \/ StepOpen(p)
          \/ StepFlockOk(p)
          \/ StepFlockFail(p)
          \/ StepWritePid(p)
          \/ StepUnlock(p)
          \/ StepClose(p)
          \/ StepRemove(p)
          \/ StepExit(p)
          \/ StepKill(p)
    /\ UNCHANGED <<now, answer, storeVars, worldVars, pc, run, hist, faults>>

SpecLock == Init /\ [][NextLock]_vars

\* ------------------------------------------------------------------------
\* SpecRetry: should_retry_failed_pdf against one Failed record and the clock
\* ------------------------------------------------------------------------

RetryUrl == "a"

\* one more failure of the url is recorded
RetryFail ==
    /\ RetryUrl \in DOMAIN failed => failed[RetryUrl].retry_count < MaxCount
    /\ failed' = SaveFailed(failed, RetryUrl, now)
    /\ UNCHANGED <<lockVars, now, answer, processed, removedLog, sitemapFile, worldVars, pc, run, hist, faults>>

\* a retry of the url succeeds: process_pdf calls save_processed_pdf, then
\* remove_from_failed
RetrySuccess ==
    /\ RetryUrl \in DOMAIN failed
    /\ processed' = SaveProcessed(processed, RetryUrl, "d1", now)
    /\ failed' = RemoveFromFailed(failed, RetryUrl)
    /\ UNCHANGED <<lockVars, now, answer, removedLog, sitemapFile, worldVars, pc, run, hist, faults>>

\* a retry of the url succeeds and the process is stopped (Ctrl+C, kill) after
\* save_processed_pdf and before remove_from_failed
RetrySuccessCut ==
    /\ RetryUrl \in DOMAIN failed
    /\ processed' = SaveProcessed(processed, RetryUrl, "d1", now)
    /\ UNCHANGED <<lockVars, now, answer, failed, removedLog, sitemapFile, worldVars, pc, run, hist, faults>>

\* a day passes
RetryTick ==
    /\ now < MaxClock
    /\ now' = now + 1
    /\ UNCHANGED <<lockVars, failed, answer, storeVars, worldVars, pc, run, hist, faults>>

\* should_retry_failed_pdf(url) is called; answer keeps what it saw and what it said
RetryAsk ==
    /\ answer' = [asked |-> TRUE,
                  retry |-> ShouldRetry(failed, RetryUrl, now),
                  known |-> RetryUrl \in DOMAIN failed,
                  retry_count |-> IF RetryUrl \in DOMAIN failed THEN failed[RetryUrl].retry_count ELSE 0,
                  elapsed |-> IF RetryUrl \in DOMAIN failed THEN now - failed[RetryUrl].failed_at ELSE 0]
    /\ UNCHANGED <<lockVars, now, storeVars, worldVars, pc, run, hist, faults>>

NextRetry == RetryFail \/ RetrySuccess \/ RetrySuccessCut \/ RetryTick \/ RetryAsk

SpecRetry == Init /\ [][NextRetry]_vars

\* ------------------------------------------------------------------------
\* SpecCleanup: handle_removed_pdfs from the states earlier runs can leave
\* ------------------------------------------------------------------------
\* A url of the saved sitemap that the new sitemap omits can be met with any
\* mix of leftovers: a run that failed or was interrupted after part of its
\* work leaves its sources, files and records behind, and a run interrupted
\* after the cleanup (the sitemap is not saved then) leaves none of them.

TrackedAt(D) == [D -> [date : DATES, processed_at : {0}]]

FailedAt(D) == [D -> [retry_count : {1}, failed_at : {0}]]

\* the records of removed_pdfs.json for the urls of D, written by an earlier run
\* before the url came back into the sitemap
RemovedAt(D) ==
    [D -> [removed_at : {0},
           cleanup : {[chatbot_source |-> TRUE, local_file |-> TRUE, ftp_file |-> TRUE, tracking |-> TRUE]}]]

InitCleanup ==
    /\ lk = AcquireLock(LockInit, Runner)
    /\ lpc = [p \in Procs |-> "idle"]
    /\ now = 1
    /\ answer = [asked |-> FALSE, retry |-> FALSE, known |-> FALSE, retry_count |-> 0, elapsed |-> 0]
    /\ \E D \in SUBSET URLS : removedLog \in RemovedAt(D)
    /\ \E old \in Manifests, new \in Manifests :
          /\ CompareSitemaps(old, new).removed # {}
          /\ sitemapFile = Xml(old)
          /\ run = [RunInit EXCEPT !.atexit = TRUE, !.content = Xml(new), !.newPdfs = new,
                                   !.removed = CompareSitemaps(old, new).removed]
    /\ \E D \in SUBSET URLS : processed \in TrackedAt(D)
    /\ \E D \in SUBSET URLS : failed \in FailedAt(D)
    /\ kb \in [URLS -> 0..1]
    /\ ftp \in SUBSET URLS
    /\ localmd \in SUBSET URLS
    /\ scratch = {}
    /\ pc = "sources"
    /\ hist = [HistInit EXCEPT !.runs = 1]
    /\ faults = 0

NextCleanup ==
    \/ \E ok \in BOOLEAN : CleanupSources(ok)
    \/ \E u \in URLS, v \in URLS, del \in BOOLEAN, rm \in BOOLEAN, ftpOk \in BOOLEAN :
          CleanupOne(u, v, del, rm, ftpOk)
    \/ \E u \in URLS, v \in URLS, del \in BOOLEAN, rm \in BOOLEAN, ftpOk \in BOOLEAN :
          CleanupRaises(u, v, del, rm, ftpOk)

SpecCleanup == InitCleanup /\ [][NextCleanup]_vars

\* ------------------------------------------------------------------------
\* Properties
\* ------------------------------------------------------------------------

\* a process believes it holds the lock from the granted flock to the start of release_lock
BelievesHeld(p) == lpc[p] \in {"locked", "held"}

\* C1: under any interleaving of the steps of acquire_lock and release_lock (open,
\* flock, write pid, unlock, close, remove) by two or more processes, at most one
\* process at a time believes it holds the execution lock.
C1_AtMostOneHolder == Cardinality({p \in Procs : BelievesHeld(p)}) <= 1

\* C2: for a url with a Failed record, retry_count < max_retries and the cooldown
\* not elapsed since failed_at, should_retry_failed_pdf returns True.
C2_RetryBelowCap ==
    (answer.asked /\ answer.known /\ answer.retry_count < MaxRetries /\ answer.elapsed <= RetryAfterDays)
        => answer.retry

\* C3: for a url whose Failed record has retry_count >= max_retries,
\* should_retry_failed_pdf returns False while now - failed_at <= cooldown and True
\* once now - failed_at > cooldown, whatever retry_count is.
C3_RetryAtCap ==
    (answer.asked /\ answer.known /\ answer.retry_count >= MaxRetries)
        => (answer.retry <=> answer.elapsed > RetryAfterDays)

\* the filter of main() has run
Filtered == pc \in {"item", "download", "convert", "upload", "chatbot", "saveproc", "unfail",
                    "savefail", "commit", "final"}

\* C4: when process_pdf failed for an item in a run that went to its end (the item has
\* a Failed record with retry_count < max_retries) and the next run downloads the same
\* sitemap, that run puts the item in to_process again.
C4_FailedItemRetried ==
    \A u \in URLS :
        (/\ Filtered
         /\ hist.last.ended
         /\ hist.last.fetched = run.content
         /\ u \in hist.last.failedItems
         /\ u \in DOMAIN run.newPdfs
         /\ u \in DOMAIN failed
         /\ failed[u].retry_count < MaxRetries)
            => u \in run.selected

\* C5: after any sequence of process_pdf successes and failures and of cleanups, no url
\* is in processed_pdfs.json and in failed_pdfs.json at once.
C5_OneLiveRecord ==
    (pc \notin InProcessPdf /\ hist.intr = "no")
        => \A u \in URLS : ~(u \in DOMAIN processed /\ u \in DOMAIN failed)

\* a step writes the Processed record of u
WritesProcessed(u) ==
    /\ u \in DOMAIN processed'
    /\ u \in DOMAIN processed => processed'[u] # processed[u]

C7_NoScratchLeft == \A u \in DOMAIN hist.outcome : u \notin scratch

AllTrue(c) == c.chatbot_source /\ c.local_file /\ c.ftp_file /\ c.tracking

\* nothing of u is left anywhere
AllAbsent(u) ==
    /\ kb[u] = 0
    /\ u \notin localmd
    /\ u \notin ftp
    /\ u \notin DOMAIN processed
    /\ u \notin DOMAIN failed

\* C8: the cleanup of a removed url of which nothing is left (no source, no local
\* file, no FTP file, no record) records all four sub-steps as successful whenever
\* the external calls themselves succeed, also when the chatbot lists no source.
C8_AbsentIsSuccess ==
    [][\A u \in URLS :
          (/\ pc = "cleanup"
           /\ u \in run.removed
           /\ u \notin run'.removed
           /\ AllAbsent(u)
           /\ run.sources.ok
           /\ faults' = faults)
              => (u \in DOMAIN removedLog' /\ AllTrue(removedLog'[u].cleanup))]_vars

\* main() went to its end: the sitemap was downloaded, nothing interrupted the run
NormalEnd == pc = "exiting" /\ hist.cause = "end"

InFlight == {"download", "convert", "upload", "chatbot", "saveproc", "savefail"}

\* C10: after an interrupt at any point of main() the lock is released before the
\* process ends (release_lock has unlocked and closed _lock_fd), and the item that
\* process_pdf was working on is not recorded as processed with the date of this run.
C10_InterruptReleases ==
    (pc = "exiting" /\ hist.intr # "no")
        => /\ ~HoldsFlock(lk, Runner)
           /\ ~lk.isopen[Runner]
           /\ hist.intr \in InFlight
                 => ~IsAlreadyProcessed(processed, run.cur, run.newPdfs[run.cur])

\* the interrupt arrived while the chatbot source of an item was being updated
C10_Witness == pc = "exiting" /\ hist.intr = "chatbot" /\ run.cur \in URLS

\* C11: suspendInstance() is called on every way a run ends (end of main(), lock held
\* by another instance, missing configuration, sitemap not downloaded, unhandled
\* exception, Ctrl+C), and once it was called the run writes no tracking file and no
\* sitemap any more.
C11_SuspendOnEveryExit ==
    [][/\ pc' = "exiting" => run'.suspended
       /\ run.suspended => storeVars' = storeVars]_vars

\* C12: when acquire_lock() returns False the run ends with an exit status other than
\* the status of the run-level errors, and it has cleaned up and processed nothing.
C12_LockedExitDistinct ==
    [][(pc = "acquire" /\ pc' = "exiting")
          => /\ hist'.cause = "locked"
             /\ run'.exitCode # ErrorStatus
             /\ storeVars' = storeVars
             /\ worldVars' = worldVars]_vars

\* C13: when download_sitemap() gives nothing, the run ends before handle_removed_pdfs
\* and process_pdf: from the start of main() to the end of the process no tracking
\* file, no saved sitemap, no file and no chatbot source has changed, and the lock is
\* released (unlocked, _lock_fd closed) when the process ends.
C13_FetchFailureAborts ==
    [][/\ pc \in {"acquire", "config", "fetch"} => (storeVars' = storeVars /\ worldVars' = worldVars)
       /\ (pc = "fetch" /\ hist'.cause = "fetch") => pc' = "exiting"
       /\ hist'.cause = "fetch"
             => /\ storeVars' = storeVars
                /\ worldVars' = worldVars
                /\ ~HoldsFlock(lk', Runner)
                /\ ~lk'.isopen[Runner]]_vars

\* the sitemap of an earlier run is on disk when the download fails
C13_Witness == pc = "exiting" /\ hist.cause = "fetch" /\ sitemapFile.kind = "xml"

\* the record of u in processed_pdfs.json carries the date d
HasProcessedAt(u, d) == u \in DOMAIN processed /\ processed[u].date = d

\* every url of to_process has been through process_pdf: Failed urls have a record of
\* this run in failed_pdfs.json, Done urls a record in processed_pdfs.json and none
\* in failed_pdfs.json
AllItemsEnded ==
    /\ DOMAIN hist.outcome = run.selected
    /\ \A u \in run.selected :
          IF hist.outcome[u] = "Failed"
          THEN u \in DOMAIN failed /\ failed[u].failed_at = now
          ELSE /\ hist.outcome[u] = "Done"
               /\ HasProcessedAt(u, run.newPdfs[u])
               /\ u \notin DOMAIN failed

C15_SecondAcquireFails ==
    [][\A q \in Procs :
          (lpc[q] = "opened" /\ lpc'[q] \in {"locked", "failed"})
              => IF \E p \in Procs \ {q} : BelievesHeld(p)
                 THEN /\ lpc'[q] = "failed"
                      /\ \A p \in Procs \ {q} : BelievesHeld(p) => HoldsFlock(lk', p)
                 ELSE (\A p \in Procs \ {q} : ~HoldsFlock(lk, p)) => lpc'[q] = "locked"]_vars

\* C16: while a process holds the lock (acquire_lock has returned True, release_lock
\* has not started), the lock file holds the pid of that process.
C16_LockFileHoldsPid ==
    \A p \in Procs : lpc[p] = "held" => lk.content[lk.fd[p]] = p

\* C17: an entry of removed_pdfs.json, once written, is never changed nor dropped.
C17_RemovalLogAppendOnly ==
    [][\A u \in DOMAIN removedLog :
          u \in DOMAIN removedLog' /\ removedLog'[u] = removedLog[u]]_vars

\* C18: every turn of the loop of handle_removed_pdfs, whatever fails in it, takes one
\* removed url through the four steps, writes its entry in removed_pdfs.json and goes
\* on with the next url (or with the filter of main() after the last one).
C18_CleanupNeverAborts ==
    [][(pc = "cleanup" /\ hist'.cause # "interrupt" /\ run' # run)
          => \E u \in run.removed :
                /\ run'.removed = run.removed \ {u}
                /\ u \in DOMAIN removedLog'
                /\ removedLog'[u].removed_at = now
                /\ u \notin DOMAIN processed'
                /\ u \notin DOMAIN failed'
                /\ pc' \in {"cleanup", "filter"}]_vars

\* C19: when a url of the saved sitemap is missing from the downloaded one and
\* get_sources, delete_source, os.remove and delete_from_ftp all work, the turn of
\* handle_removed_pdfs for that url leaves no chatbot source, no local file, no FTP
\* file and no record of it, and an entry in removed_pdfs.json with the four steps True.
C19_RemovedIsGone ==
    [][\A u \in URLS :
          (/\ pc = "cleanup"
           /\ u \in run.removed
           /\ u \notin run'.removed
           /\ run.sources.ok
           /\ faults' = faults
           /\ hist'.cause = "none")
              => /\ kb'[u] = 0
                 /\ u \notin localmd'
                 /\ u \notin ftp'
                 /\ u \notin DOMAIN processed'
                 /\ u \notin DOMAIN failed'
                 /\ u \in DOMAIN removedLog'
                 /\ AllTrue(removedLog'[u].cleanup)]_vars

\* C20: is_pdf_already_processed(url, date) is True iff processed_pdfs.json has a
\* record of url with exactly that date, and a url with such a record for the date of
\* the downloaded sitemap is neither put in to_process nor taken through process_pdf,
\* in any run.
C20_ProcessedNotRerun ==
    /\ \A u \in URLS, d \in DATES : IsAlreadyProcessed(processed, u, d) <=> HasProcessedAt(u, d)
    /\ pc \in {"item", "commit"} => \A u \in run.toProcess : ~HasProcessedAt(u, run.newPdfs[u])
    /\ pc \in InFlight => ~HasProcessedAt(run.cur, run.newPdfs[run.cur])

\* the run before was interrupted after save_processed_pdf and before save_sitemap;
\* this run finds the url in the diff and leaves it out of to_process
C20_Witness ==
    /\ pc \in {"item", "commit"}
    /\ ~hist.last.ended
    /\ \E u \in DOMAIN run.newPdfs :
          /\ u \notin DOMAIN LoadLocalSitemap(sitemapFile)
          /\ HasProcessedAt(u, run.newPdfs[u])
          /\ u \notin run.selected

\* C21: for any two sitemaps, compare_sitemaps gives added = the urls of the new one
\* only, removed = the urls of the old one only, changed = the urls of both with
\* different dates; the three are pairwise disjoint and every other url of the new
\* sitemap has the same date in both.  main() passes the result on: handle_removed_pdfs
\* gets removed, to_process is taken from added and changed.
C21_DiffPartition ==
    /\ \A old \in Manifests, new \in Manifests :
          LET d == CompareSitemaps(old, new)
          IN /\ d.added \cap d.changed = {}
             /\ d.added \cap d.removed = {}
             /\ d.changed \cap d.removed = {}
             /\ d.added = DOMAIN new \ DOMAIN old
             /\ d.removed = DOMAIN old \ DOMAIN new
             /\ d.changed = {u \in DOMAIN new \cap DOMAIN old : old[u] # new[u]}
             /\ \A u \in DOMAIN new \ (d.added \cup d.changed) : u \in DOMAIN old /\ old[u] = new[u]
    /\ pc = "sources" => run.removed = DOMAIN LoadLocalSitemap(sitemapFile) \ DOMAIN run.newPdfs
    /\ pc \in {"item", "commit"}
          => \A u \in run.selected :
                \/ u \notin DOMAIN LoadLocalSitemap(sitemapFile)
                \/ LoadLocalSitemap(sitemapFile)[u] # run.newPdfs[u]

\* main() has compared a saved sitemap with a downloaded one: one url has a new date,
\* another one is gone
C21_Witness ==
    /\ pc = "sources"
    /\ CompareSitemaps(LoadLocalSitemap(sitemapFile), run.newPdfs).changed # {}
    /\ CompareSitemaps(LoadLocalSitemap(sitemapFile), run.newPdfs).removed # {}

\* C22: with failed_pdfs.json left as it is, should_retry_failed_pdf(url) that is True at
\* a time t is True at every later time.
C22_RetryMonotone ==
    \A t1 \in 0..MaxClock, t2 \in 0..MaxClock :
        (t1 < t2 /\ ShouldRetry(failed, RetryUrl, t1)) => ShouldRetry(failed, RetryUrl, t2)

\* should_retry_failed_pdf has answered True for a record whose cooldown is over, and
\* time has gone on since
C22_Witness ==
    /\ answer.asked /\ answer.known /\ answer.retry
    /\ RetryUrl \in DOMAIN failed
    /\ failed[RetryUrl].retry_count = answer.retry_count
    /\ now - failed[RetryUrl].failed_at > answer.elapsed

\* C23: save_failed_pdf sets retry_count to 1 for a url without a Failed record and to
\* the previous retry_count + 1 otherwise; every Failed record has retry_count >= 1; a
\* success (the write of the Processed record) leaves no Failed record of the url, so
\* that retry_count counts the failures since the last success.
C23_RetryCountCounts ==
    [][/\ \A u \in DOMAIN failed' : failed'[u].retry_count >= 1
       /\ (failed' # failed /\ RetryUrl \in DOMAIN failed')
             => failed'[RetryUrl].retry_count
                  = (IF RetryUrl \in DOMAIN failed THEN failed[RetryUrl].retry_count + 1 ELSE 1)
       /\ (processed' # processed /\ RetryUrl \in DOMAIN processed')
             => RetryUrl \notin DOMAIN failed']_vars

\* C24: save_processed_pdf(url, date) called twice leaves processed_pdfs.json as one
\* call does, except for processed_at, and leaves the records of the other urls as
\* they were.
C24_MarkProcessedIdempotent ==
    \A u \in URLS, d \in DATES :
        LET once == SaveProcessed(processed, u, d, now)
            twice == SaveProcessed(once, u, d, now + 1)
        IN /\ DOMAIN twice = DOMAIN once
           /\ DOMAIN once = DOMAIN processed \cup {u}
           /\ twice[u].date = d /\ once[u].date = d
           /\ \A v \in DOMAIN processed \ {u} : once[v] = processed[v] /\ twice[v] = processed[v]

\* save_processed_pdf has just written the record of a url into a file that holds the
\* record of another url
C24_Witness ==
    /\ pc = "unfail"
    /\ HasProcessedAt(run.cur, run.newPdfs[run.cur])
    /\ \E v \in DOMAIN processed : v # run.cur

\* the entry of removed_pdfs.json for u reports a partial cleanup
PartialCleanup(u) == u \in DOMAIN removedLog /\ ~AllTrue(removedLog[u].cleanup)

\* C25: once the cleanup of a url was partial and the saved sitemap no longer lists
\* the url, no later run calls the cleanup for it: the url is not among the removed
\* urls handed to handle_removed_pdfs, and its entry of removed_pdfs.json, its files
\* and its records stay as they are.  The cleanup runs for a url only when the saved
\* sitemap lists it and the downloaded one does not.
C25_PartialCleanupNotRetried ==
    [][\A u \in URLS :
          /\ (pc \in {"sources", "cleanup"} /\ u \in run.removed)
                => (u \in DOMAIN LoadLocalSitemap(sitemapFile) /\ u \notin DOMAIN run.newPdfs)
          /\ (pc \in {"sources", "cleanup"} /\ PartialCleanup(u)
                /\ u \notin DOMAIN LoadLocalSitemap(sitemapFile))
                => /\ u \notin run.removed
                   /\ u \in DOMAIN removedLog' /\ removedLog'[u] = removedLog[u]
                   /\ (u \in ftp' <=> u \in ftp)
                   /\ (u \in localmd' <=> u \in localmd)
                   /\ (u \in DOMAIN processed' <=> u \in DOMAIN processed)
                   /\ (u \in DOMAIN failed' <=> u \in DOMAIN failed)]_vars

\* a run has gone through its cleanup phase and its filter while the sitemap still omits
\* a url whose cleanup was partial in an earlier run that saved the sitemap
C25_Witness ==
    \E u \in URLS :
        /\ PartialCleanup(u)
        /\ sitemapFile.kind = "xml" /\ u \notin DOMAIN LoadLocalSitemap(sitemapFile)
        /\ run.content.kind = "xml" /\ u \notin DOMAIN run.newPdfs
        /\ pc = "final"
        /\ u \in ftp

\* C26: a downloaded sitemap that cannot be parsed never starts the cleanup of a url of
\* the saved sitemap: the Processed record, the markdown file and the FTP file of a url
\* go only in a run whose downloaded sitemap was parsed and omits the url.
C26_NoCleanupOnBadXml ==
    [][\A u \in URLS :
          (pc \in {"sources", "cleanup"}
             /\ \/ (u \in DOMAIN processed /\ u \notin DOMAIN processed')
                \/ (u \in localmd /\ u \notin localmd')
                \/ (u \in ftp /\ u \notin ftp')
                \/ (u \notin DOMAIN removedLog /\ u \in DOMAIN removedLog'))
          => (run.content.kind = "xml" /\ u \notin DOMAIN run.content.pdfs)]_vars

\* C27: the chatbot never holds more than one source per url, and a call of
\* process_chatbot_source that returns without raising leaves exactly one source for
\* its url, also when delete_source failed for the source found.
C27_OneSourcePerUrl ==
    [][/\ \A u \in URLS : kb'[u] <= 1
       /\ (pc = "chatbot" /\ pc' = "saveproc") => kb'[run.cur] = 1]_vars

\* C28: process_chatbot_source(url) and the cleanup of a removed url delete no chatbot
\* source of another url, also when the file name of the url is part of the file name
\* of the other.
C28_OnlyOwnSourceDeleted ==
    [][\A v \in URLS :
          kb'[v] < kb[v]
             => \/ (pc = "chatbot" /\ v = run.cur)
                \/ (pc = "cleanup" /\ v \in run.removed)]_vars

====
